---- MODULE Spec2Model ----
(***************************************************************************)
(* Model of the XFF (X-Forwarded-For) support of the EVE alert output:    *)
(*   src/src/app-layer-htp-xff.c   GetXFFIPFromTx, GetXFFIP, GetXFFCfg     *)
(*   src/src/output-json-alert.c   JsonAlertLogInitCtxSub, JsonAlertLogger,*)
(*                                 AlertJson, AlertJsonDecoderEvent        *)
(*                                                                         *)
(* Three specifications share the module:                                  *)
(*   SpecXff  applies the two extractor functions to bounded flows;        *)
(*   SpecCfg  applies the config resolver, repeatedly, to one XFFCfg;      *)
(*   Spec     runs the per-packet log entry point stage by stage.          *)
(*                                                                         *)
(* C strings and bstr values are sequences of one-character strings.  A    *)
(* pointer that may be NULL is a sequence of length at most one.           *)
(***************************************************************************)
EXTENDS Integers, Sequences, FiniteSets, TLC

VARIABLES
    x_flow,     \* SpecXff: p->flow of the packet handed to the extractor
    x_call,     \* SpecXff: the call made: [fn, tx_id, header], fn = "none" before
    x_dstbuf,   \* SpecXff: the caller's output l_buffer (a C string)
    x_ret,      \* SpecXff: the call's return value
    c_result,   \* SpecCfg: the XFFCfg *result handed to GetXFFCfg
    c_conf,     \* SpecCfg: the ConfNode of the last call (NULL before the first)
    c_calls,    \* SpecCfg: how many times GetXFFCfg ran on c_result
    l_conf,     \* the ConfNode of the eve-log alert sub-module (NULL or a pointer)
    ub_xff_cfg, \* what a load through a NULL XFFCfg pointer yields in this
                \* build: NULL when the load faults, else the bytes read
    octx,       \* output_ctx->data: NULL or the AlertJsonOutputCtx
    aft,        \* the worker's JsonAlertLogThread: NULL or [json_buffer,
                \* payload_buffer, json_output_ctx]
    pc,         \* where the worker is
    pkt,        \* the packet being logged (NULL outside JsonAlertLogger)
    l_i,          \* AlertJson's loop index, counted from 1
    l_js,         \* AlertJson's l_js object (NULL when there is none)
    l_have_xff_ip,\* AlertJson's l_have_xff_ip
    l_buffer,     \* AlertJson's char buffer[XFF_MAXLEN]
    emitted,    \* the records handed to OutputJSONBuffer, in order
    ret,        \* the return value of the last entry point
    alloc_failed, \* whether an allocation failed during the call
    t_heap,     \* SpecThr: the heap objects of the workers' thread data
    t_data,     \* SpecThr: *data as the last JsonAlertLogThreadInit left it
    t_last,     \* SpecThr: the last call: [fn, arg, fails]
    t_ret,      \* SpecThr: its return value
    t_uaf,      \* SpecThr: whether released memory has been accessed
    t_crashed,  \* SpecThr: whether such an access faulted
    t_calls,    \* SpecThr: the number of calls so far
    k_build,    \* SpecLock: [flags, xff_mode, mutex] of the build and config
    k_pc,       \* SpecLock: where each worker is in AlertJson
    k_pkt,      \* SpecLock: each worker's packet
    k_i,        \* SpecLock: each worker's loop index, counted from 1
    k_readers,  \* SpecLock: the workers holding each flow's read lock
    k_crashed   \* SpecLock: whether the process has faulted

xvars == <<x_flow, x_call, x_dstbuf, x_ret>>

cvars == <<c_result, c_conf, c_calls>>

lvars == <<l_conf, ub_xff_cfg, octx, aft, pc, pkt, l_i, l_js, l_have_xff_ip, l_buffer,
           emitted, ret, alloc_failed>>

tvars == <<t_heap, t_data, t_last, t_ret, t_uaf, t_crashed, t_calls>>

kvars == <<k_build, k_pc, k_pkt, k_i, k_readers, k_crashed>>

vars == <<xvars, cvars, lvars, tvars, kvars>>

(***************************************************************************)
(* Program constants                                                       *)
(***************************************************************************)
XFF_CHAIN_MINLEN == 7
XFF_CHAIN_MAXLEN == 256
XFF_MAXLEN == 46

XFF_DEFAULT == "X-Forwarded-For"

(***************************************************************************)
(* Bounds of the model                                                     *)
(***************************************************************************)
MaxChain == 3     \* tokens in one forwarding chain
MaxTxs == 3       \* transactions of a flow

NULL == <<>>
Ptr(x) == <<x>>
Deref(p) == p[1]

NUL == "NUL"      \* the terminating byte of a C string

(***************************************************************************)
(* Characters                                                              *)
(***************************************************************************)
Digits == {"0", "1", "2", "3", "4", "5", "6", "7", "8", "9"}

HexDigits == Digits \cup {"a", "b", "c", "d", "e", "f", "A", "B", "C", "D", "E", "F"}

DigitVal(c) ==
    CASE c = "0" -> 0 [] c = "1" -> 1 [] c = "2" -> 2 [] c = "3" -> 3
      [] c = "4" -> 4 [] c = "5" -> 5 [] c = "6" -> 6 [] c = "7" -> 7
      [] c = "8" -> 8 [] c = "9" -> 9

(***************************************************************************)
(* inet_pton(AF_INET, src, dst) == 1, as the C library scans src: decimal  *)
(* octets without a leading zero, at most 255, exactly four, separated by  *)
(* single dots.  i is the read position, cur the octet being read.         *)
(***************************************************************************)
RECURSIVE Pton4Scan(_, _, _, _, _)
Pton4Scan(s, i, cur, saw_digit, octets) ==
    IF i > Len(s) THEN octets = 4
    ELSE IF s[i] \in Digits THEN
        LET new == cur * 10 + DigitVal(s[i]) IN
        IF saw_digit /\ cur = 0 THEN FALSE
        ELSE IF new > 255 THEN FALSE
        ELSE IF ~saw_digit /\ octets + 1 > 4 THEN FALSE
        ELSE Pton4Scan(s, i + 1, new, TRUE, IF saw_digit THEN octets ELSE octets + 1)
    ELSE IF s[i] = "." /\ saw_digit THEN
        IF octets = 4 THEN FALSE ELSE Pton4Scan(s, i + 1, 0, FALSE, octets)
    ELSE FALSE

inet_pton4(s) == Pton4Scan(s, 1, 0, FALSE, 0)

(***************************************************************************)
(* inet_pton(AF_INET6, src, dst) == 1.  tp counts the bytes of the 16-byte *)
(* address filled so far, colon says whether "::" was seen, seen counts    *)
(* the hex digits of the group being read and curtok is where it starts.  *)
(***************************************************************************)
Pton6Finish(tp, colon, seen) ==
    LET tp2 == IF seen > 0 THEN tp + 2 ELSE tp IN
    IF tp2 > 16 THEN FALSE
    ELSE IF colon THEN tp2 # 16
    ELSE tp2 = 16

RECURSIVE Pton6Scan(_, _, _, _, _, _)
Pton6Scan(s, i, tp, colon, seen, curtok) ==
    IF i > Len(s) THEN Pton6Finish(tp, colon, seen)
    ELSE IF s[i] \in HexDigits THEN
        IF seen + 1 > 4 THEN FALSE
        ELSE Pton6Scan(s, i + 1, tp, colon, seen + 1, curtok)
    ELSE IF s[i] = ":" THEN
        IF seen = 0 THEN
            IF colon THEN FALSE ELSE Pton6Scan(s, i + 1, tp, TRUE, 0, i + 1)
        ELSE IF i + 1 > Len(s) THEN FALSE
        ELSE IF tp + 2 > 16 THEN FALSE
        ELSE Pton6Scan(s, i + 1, tp + 2, colon, 0, i + 1)
    ELSE IF s[i] = "." /\ tp + 4 <= 16 /\ inet_pton4(SubSeq(s, curtok, Len(s))) THEN
        Pton6Finish(tp + 4, colon, 0)
    ELSE FALSE

inet_pton6(s) ==
    IF Len(s) >= 1 /\ s[1] = ":" THEN
        IF Len(s) >= 2 /\ s[2] = ":" THEN Pton6Scan(s, 2, 0, FALSE, 0, 2) ELSE FALSE
    ELSE Pton6Scan(s, 1, 0, FALSE, 0, 1)

(***************************************************************************)
(* C string helpers                                                        *)
(***************************************************************************)
\* memrchr(buf, c, n): the index of the last c among buf[1..n], 0 for NULL.
memrchr(buf, c, n) ==
    LET hits == {i \in 1..n : buf[i] = c}
    IN IF hits = {} THEN 0 ELSE CHOOSE i \in hits : \A j \in hits : j <= i

\* The C string that starts at buf[from]: the bytes before the first NUL.
CStr(buf, from) ==
    LET nuls == {i \in from..Len(buf) : buf[i] = NUL}
        end == IF nuls = {} THEN Len(buf) + 1
               ELSE CHOOSE i \in nuls : \A j \in nuls : i <= j
    IN SubSeq(buf, from, end - 1)

\* strlcpy(dst, src, size): dst holds at most size - 1 bytes of src.
strlcpy(src, size) ==
    IF Len(src) <= size - 1 THEN src ELSE SubSeq(src, 1, size - 1)

(***************************************************************************)
(* Header names: htp_table_get_c compares names without regard to case.   *)
(***************************************************************************)
LowerName(n) ==
    CASE n = "X-Forwarded-For" -> "x-forwarded-for"
      [] n = "X-FORWARDED-FOR" -> "x-forwarded-for"
      [] n = "x-forwarded-for" -> "x-forwarded-for"
      [] n = "X-Real-IP" -> "x-real-ip"
      [] n = "x-real-ip" -> "x-real-ip"
      [] n = "Host" -> "host"
      [] OTHER -> n

\* htp_table_get_c(table, name): the first header whose name matches, or NULL.
RECURSIVE TableGetFrom(_, _, _)
TableGetFrom(table, name, i) ==
    IF i > Len(table) THEN NULL
    ELSE IF LowerName(table[i].name) = LowerName(name) THEN Ptr(table[i])
    ELSE TableGetFrom(table, name, i + 1)

htp_table_get_c(table, name) == TableGetFrom(table, name, 1)

(***************************************************************************)
(* The flow's application state.  A flow is [alproto, alstate, log_id];   *)
(* alstate is NULL or points to an HtpState [txs], a sequence of           *)
(* transactions, each NULL or [request_headers], itself NULL or a table.   *)
(***************************************************************************)
FlowGetAppState(f) == f.alstate

AppLayerParserGetTxCnt(htp_state) == Len(htp_state.txs)

\* NULL for an index past the list or a transaction already freed.
AppLayerParserGetTx(htp_state, tx_id) ==
    IF tx_id < Len(htp_state.txs) THEN htp_state.txs[tx_id + 1] ELSE NULL

(***************************************************************************)
(* GetXFFIPFromTx: [ret, dstbuf] for the flow f of the packet.             *)
(***************************************************************************)
FirstSpaceToken(xff_chain, n) ==
    LET first == CHOOSE i \in 1..(n + 1) :
                    /\ (i = n + 1 \/ xff_chain[i] = " ")
                    /\ \A j \in 1..(i - 1) : xff_chain[j] # " "
    IN IF first = n + 1 THEN 1 ELSE first + 1

LastSpaceToken(xff_chain, n) ==
    LET p_xff == memrchr(xff_chain, " ", n)
    IN IF p_xff = 0 THEN 1 ELSE p_xff + 1

ChainLenOkInclusive(len) == len >= XFF_CHAIN_MINLEN /\ len <= XFF_CHAIN_MAXLEN

ChainLenOk(len) == len >= XFF_CHAIN_MINLEN /\ len < XFF_CHAIN_MAXLEN

GetXFFIPFromTx(f, tx_id, xff_header, dstbuf, dstbuflen) ==
    LET notfound == [ret |-> 0, dstbuf |-> dstbuf]
        htp_state == FlowGetAppState(f)
    IN
    IF htp_state = NULL THEN notfound
    ELSE IF tx_id >= AppLayerParserGetTxCnt(Deref(htp_state)) THEN notfound
    ELSE LET tx == AppLayerParserGetTx(Deref(htp_state), tx_id) IN
    IF tx = NULL THEN notfound
    ELSE LET h_xff == IF Deref(tx).request_headers # NULL
                      THEN htp_table_get_c(Deref(Deref(tx).request_headers), xff_header)
                      ELSE NULL
    IN
    IF h_xff # NULL /\ ChainLenOk(Len(Deref(h_xff).value)) THEN
        LET value == Deref(h_xff).value
            xff_chain == value \o <<NUL>>
            p_xff == LastSpaceToken(xff_chain, Len(value))
            cand == CStr(xff_chain, p_xff)
        IN IF inet_pton4(cand) \/ inet_pton6(cand)
           THEN [ret |-> 1, dstbuf |-> strlcpy(cand, dstbuflen)]
           ELSE notfound
    ELSE notfound

(***************************************************************************)
(* GetXFFIP: the loop over tx_id = 0, 1, ... , total_txs - 1.              *)
(***************************************************************************)
RECURSIVE ScanTxsUp(_, _, _, _, _, _)
ScanTxsUp(f, tx_id, total_txs, xff_header, dstbuf, dstbuflen) ==
    IF tx_id >= total_txs THEN [ret |-> 0, dstbuf |-> dstbuf]
    ELSE LET r == GetXFFIPFromTx(f, tx_id, xff_header, dstbuf, dstbuflen) IN
         IF r.ret = 1 THEN r
         ELSE ScanTxsUp(f, tx_id + 1, total_txs, xff_header, r.dstbuf, dstbuflen)

RECURSIVE ScanTxsDown(_, _, _, _, _, _)
ScanTxsDown(f, tx_id, total_txs, xff_header, dstbuf, dstbuflen) ==
    IF total_txs <= tx_id THEN [ret |-> 0, dstbuf |-> dstbuf]
    ELSE LET r == GetXFFIPFromTx(f, total_txs - 1, xff_header, dstbuf, dstbuflen) IN
         IF r.ret = 1 THEN r
         ELSE ScanTxsDown(f, tx_id, total_txs - 1, xff_header, r.dstbuf, dstbuflen)

ScanTxs(f, tx_id, total_txs, xff_header, dstbuf, dstbuflen) ==
    ScanTxsUp(f, tx_id, total_txs, xff_header, dstbuf, dstbuflen)

GetXFFIP(f, xff_header, dstbuf, dstbuflen) ==
    LET htp_state == FlowGetAppState(f) IN
    IF htp_state = NULL THEN [ret |-> 0, dstbuf |-> dstbuf]
    ELSE ScanTxs(f, 0, AppLayerParserGetTxCnt(Deref(htp_state)),
                 xff_header, dstbuf, dstbuflen)

(***************************************************************************)
(* SpecXff: the extractor applied to bounded flows.                        *)
(***************************************************************************)
T_10_0_0_1 == <<"1", "0", ".", "0", ".", "0", ".", "1">>

T_203_0_113_5 == <<"2", "0", "3", ".", "0", ".", "1", "1", "3", ".", "5">>

T_1_1_1_1 == <<"1", ".", "1", ".", "1", ".", "1">>

T_v6_loopback == <<":", ":", "1">>

T_v6_short == <<"1", ":", ":", "2", ":", "3">>

T_v6_mapped == <<":", ":", "f", "f", "f", "f", ":", "1", "0", ".", "0", ".", "0", ".", "1">>

T_not_an_ip == <<"n", "o", "t", "-", "a", "n", "-", "i", "p">>

T_256_1_1_1 == <<"2", "5", "6", ".", "1", ".", "1", ".", "1">>

T_empty == <<>>

Tokens ==
    {T_10_0_0_1, T_203_0_113_5, T_1_1_1_1, T_v6_loopback, T_v6_short,
     T_not_an_ip, T_empty}

Separators == {<<",", " ">>, <<" ">>, <<",">>}

RECURSIVE Join(_, _)
Join(toks, sep) ==
    IF Len(toks) = 1 THEN toks[1]
    ELSE toks[1] \o sep \o Join(Tail(toks), sep)

Chains ==
    UNION {{Join(toks, sep) : toks \in [1..n -> Tokens], sep \in Separators} :
           n \in 1..MaxChain}

Pad(k) == [i \in 1..k |-> "a"]

\* Values whose length sits on either side of XFF_CHAIN_MAXLEN, with and
\* without a valid last token.
LongValues ==
    {Pad(k) \o <<",", " ">> \o T_1_1_1_1 :
        k \in (XFF_CHAIN_MAXLEN - 11)..(XFF_CHAIN_MAXLEN - 8)}
    \cup {Pad(XFF_CHAIN_MAXLEN - 1), Pad(XFF_CHAIN_MAXLEN)}

\* An octet out of range and an IPv4-mapped IPv6 address, alone and last.
OtherValues ==
    {T_256_1_1_1, T_v6_mapped,
     T_10_0_0_1 \o <<",", " ">> \o T_256_1_1_1,
     T_10_0_0_1 \o <<",", " ">> \o T_v6_mapped}

HeaderValues == Chains \cup LongValues \cup OtherValues

HeaderNames == {"X-Forwarded-For", "x-forwarded-for", "X-Real-IP"}

ConfiguredHeaders == {"X-Forwarded-For", "X-Real-IP"}

Tx(table) == Ptr([request_headers |-> Ptr(table)])

TxNoTable == Ptr([request_headers |-> NULL])

Hdr(n, v) == [name |-> n, value |-> v]

HttpFlow(txs) == [alproto |-> "http", alstate |-> Ptr([txs |-> txs]), log_id |-> 0]

NoStateFlow == [alproto |-> "http", alstate |-> NULL, log_id |-> 0]

\* One transaction, every header value, every header name.
SingleTxFlows ==
    {HttpFlow(<<Tx(<<Hdr("Host", T_not_an_ip), Hdr(n, v)>>)>>) :
        n \in HeaderNames, v \in HeaderValues}

\* Several transactions, few values: freed (NULL) transactions, transactions
\* without a header table, without the header, and with a repeated header.
FewTxs ==
    {NULL, TxNoTable,
     Tx(<<Hdr("Host", T_10_0_0_1)>>),
     Tx(<<Hdr("X-Forwarded-For", T_10_0_0_1 \o <<",", " ">> \o T_203_0_113_5)>>),
     Tx(<<Hdr("x-forwarded-for", T_10_0_0_1 \o <<",", " ">> \o T_not_an_ip),
          Hdr("X-Forwarded-For", T_1_1_1_1)>>),
     Tx(<<Hdr("X-Forwarded-For", T_1_1_1_1), Hdr("X-Real-IP", T_v6_mapped)>>)}

MultiTxFlows == UNION {{HttpFlow(txs) : txs \in [1..n -> FewTxs]} : n \in 0..MaxTxs}

XffFlows == {NoStateFlow} \cup SingleTxFlows \cup MultiTxFlows

\* What the caller's buffer holds before the call (char buffer[XFF_MAXLEN]).
Unwritten == <<"?">>

(***************************************************************************)
(* The Config Resolver                                                     *)
(***************************************************************************)
XFF_DISABLED == 1
XFF_EXTRADATA == 2
XFF_OVERWRITE == 4

\* a | b and a & b on unsigned integers
RECURSIVE BitOr(_, _)
BitOr(a, b) ==
    IF a = 0 THEN b
    ELSE IF b = 0 THEN a
    ELSE (IF a % 2 = 1 \/ b % 2 = 1 THEN 1 ELSE 0) + 2 * BitOr(a \div 2, b \div 2)

RECURSIVE BitAnd(_, _)
BitAnd(a, b) ==
    IF a = 0 \/ b = 0 THEN 0
    ELSE (IF a % 2 = 1 /\ b % 2 = 1 THEN 1 ELSE 0) + 2 * BitAnd(a \div 2, b \div 2)

\* tolower() over the words a configuration value takes in the model
LowerWord(s) ==
    CASE s = "YES" -> "yes"
      [] s = "TRUE" -> "true"
      [] s = "On" -> "on"
      [] s = "Overwrite" -> "overwrite"
      [] s = "OVERWRITE" -> "overwrite"
      [] s = "Extra-Data" -> "extra-data"
      [] OTHER -> s

strcasecmp(a, b) == IF LowerWord(a) = LowerWord(b) THEN 0 ELSE 1

strcmp(a, b) == IF a = b THEN 0 ELSE 1

\* ConfValIsTrue: "1", "yes", "true" or "on", in any letter case.
ConfValIsTrue(val) ==
    \E t \in {"1", "yes", "true", "on"} : strcasecmp(val, t) = 0

\* A ConfNode is [xff, http, payload, payload_printable, packet]: the child
\* node xff (NULL or a pointer to [enabled, mode, header]) and the values of
\* the four scalar children, each NULL when the child is absent.
ConfNodeLookupChild(conf, name) == conf[name]

ConfNodeLookupChildValue(node, name) == node[name]

ConfNodeChildValueIsTrue(node, name) ==
    LET val == ConfNodeLookupChildValue(node, name)
    IN val # NULL /\ ConfValIsTrue(Deref(val))

ModeIsOverwriteExact(xff_mode) ==
    xff_mode # NULL /\ strcmp(Deref(xff_mode), "overwrite") = 0

ModeIsOverwrite(xff_mode) ==
    xff_mode # NULL /\ strcasecmp(Deref(xff_mode), "overwrite") = 0

\* GetXFFCfg(conf, result): the XFFCfg that result points to afterwards.
GetXFFCfg(conf, result) ==
    LET xff_node == ConfNodeLookupChild(conf, "xff") IN
    IF xff_node # NULL /\ ConfNodeChildValueIsTrue(Deref(xff_node), "enabled") THEN
        LET xff_mode == ConfNodeLookupChildValue(Deref(xff_node), "mode")
            xff_header == ConfNodeLookupChildValue(Deref(xff_node), "header")
        IN [mode |-> IF ModeIsOverwrite(xff_mode)
                     THEN BitOr(result.mode, XFF_OVERWRITE)
                     ELSE BitOr(result.mode, XFF_EXTRADATA),
            header |-> IF xff_header # NULL THEN xff_header ELSE Ptr(XFF_DEFAULT)]
    ELSE [result EXCEPT !.mode = XFF_DISABLED]

(***************************************************************************)
(* Configurations                                                          *)
(***************************************************************************)
MaxResolves == 2    \* calls of GetXFFCfg on one XFFCfg

EnabledValues == {NULL, Ptr("yes"), Ptr("TRUE"), Ptr("On"), Ptr("1"), Ptr("no"), Ptr("false")}

ModeValues ==
    {NULL, Ptr("overwrite"), Ptr("Overwrite"), Ptr("OVERWRITE"),
     Ptr("extra-data"), Ptr("bogus")}

HeaderConfValues == {NULL, Ptr("X-Real-IP"), Ptr("x-forwarded-for")}

XffNodes == [enabled : EnabledValues, mode : ModeValues, header : HeaderConfValues]

NoFlags == [http |-> NULL, payload |-> NULL, payload_printable |-> NULL, packet |-> NULL]

ConfWithXff(x) ==
    [xff |-> x, http |-> NULL, payload |-> NULL, payload_printable |-> NULL,
     packet |-> NULL]

XffConfs == {ConfWithXff(NULL)} \cup {ConfWithXff(Ptr(x)) : x \in XffNodes}

\* An XFFCfg as memset(.., 0, ..) or SCCalloc leaves it.
ZeroedXFFCfg == [mode |-> 0, header |-> NULL]

(***************************************************************************)
(* The EVE alert output (output-json-alert.c)                              *)
(***************************************************************************)
LOG_JSON_PAYLOAD == 1
LOG_JSON_PACKET == 2
LOG_JSON_PAYLOAD_BASE64 == 4
LOG_JSON_HTTP == 5

TM_ECODE_OK == 0
TM_ECODE_FAILED == 1

MaxAlerts == 2    \* p->alerts.cnt

\* The flag bit a true child value of the sub-module configuration sets.
FlagIf(conf, name, bit) ==
    LET val == ConfNodeLookupChildValue(conf, name)
    IN IF val # NULL /\ ConfValIsTrue(Deref(val)) THEN bit ELSE 0

\* json_output_ctx->flags as JsonAlertLogInitCtxSub leaves it.
FlagsOf(conf) ==
    IF conf = NULL THEN 0
    ELSE BitOr(BitOr(FlagIf(Deref(conf), "http", LOG_JSON_HTTP),
                     FlagIf(Deref(conf), "payload_printable", LOG_JSON_PAYLOAD)),
               BitOr(FlagIf(Deref(conf), "payload", LOG_JSON_PAYLOAD_BASE64),
                     FlagIf(Deref(conf), "packet", LOG_JSON_PACKET)))

\* The AlertJsonOutputCtx JsonAlertLogInitCtxSub builds: memset to 0, then
\* the flags; xff_cfg is assigned nowhere in the file and stays NULL.
NewAlertJsonOutputCtx(conf) == [flags |-> FlagsOf(conf), xff_cfg |-> NULL]

\* EngineModeIsIPS(): the engine runs as an IDS here.
EngineModeIsIPS == FALSE

\* "blocked" or "allowed", from pa->action.
AlertAction(pa) ==
    IF pa.action \cap {"REJECT", "REJECT_DST", "REJECT_BOTH"} # {} THEN "blocked"
    ELSE IF "DROP" \in pa.action /\ EngineModeIsIPS THEN "blocked"
    ELSE "allowed"

\* tx_id is put in for every alert.
AlertObjectTxAlways(pa) ==
    [action |-> AlertAction(pa),
     gid |-> Deref(pa.s).gid,
     signature_id |-> Deref(pa.s).id,
     rev |-> Deref(pa.s).rev,
     signature |-> IF Deref(pa.s).msg # NULL THEN Deref(Deref(pa.s).msg) ELSE "",
     category |-> IF Deref(pa.s).class_msg # NULL
                  THEN Deref(Deref(pa.s).class_msg) ELSE "",
     severity |-> Deref(pa.s).prio,
     tx_id |-> Ptr(pa.tx_id)]

\* The "alert" object (ajs) of one PacketAlert with a signature.
AlertObject(pa) ==
    [action |-> AlertAction(pa),
     gid |-> Deref(pa.s).gid,
     signature_id |-> Deref(pa.s).id,
     rev |-> Deref(pa.s).rev,
     signature |-> IF Deref(pa.s).msg # NULL THEN Deref(Deref(pa.s).msg) ELSE "",
     category |-> IF Deref(pa.s).class_msg # NULL
                  THEN Deref(Deref(pa.s).class_msg) ELSE "",
     severity |-> Deref(pa.s).prio,
     tx_id |-> IF pa.flags_tx THEN Ptr(pa.tx_id) ELSE NULL]

\* The object CreateJSONHeader returns: the per-packet common fields.  A key
\* that is not in the object holds NULL.
CreateJSONHeader(p) ==
    [src_ip |-> Ptr(p.src), dest_ip |-> Ptr(p.dst), alert |-> NULL, http |-> NULL,
     payload |-> NULL, payload_printable |-> NULL, packet |-> NULL,
     stream |-> NULL, xff |-> NULL]

\* The object AlertJsonDecoderEvent builds: a timestamp and the alert, which
\* never carries a tx_id.
DecoderEventObject(pa) ==
    [src_ip |-> NULL, dest_ip |-> NULL,
     alert |-> Ptr([AlertObject(pa) EXCEPT !.tx_id = NULL]), http |-> NULL,
     payload |-> NULL, payload_printable |-> NULL, packet |-> NULL,
     stream |-> NULL, xff |-> NULL]

\* AlertJsonHttp(f, js): the "http" object of the transaction being logged,
\* when the flow has HTTP state and that transaction exists; hjs_ok says
\* whether json_object() returned an object.
AlertJsonHttp(f, js, hjs_ok) ==
    LET htp_state == f.alstate IN
    IF htp_state = NULL THEN js
    ELSE LET tx_id == f.log_id
             tx == AppLayerParserGetTx(Deref(htp_state), tx_id)
         IN IF tx = NULL THEN js
            ELSE IF ~hjs_ok THEN js
            ELSE [js EXCEPT !.http = Ptr([tx_id |-> tx_id])]

\* Whether AlertJsonHttp reaches its json_object() call.
HttpAllocates(flags, p) ==
    /\ BitAnd(flags, LOG_JSON_HTTP) # 0
    /\ p.flow # NULL
    /\ Deref(p.flow).alproto = "http"
    /\ Deref(p.flow).alstate # NULL
    /\ AppLayerParserGetTx(Deref(Deref(p.flow).alstate), Deref(p.flow).log_id) # NULL

\* Lines 178-189.
HttpStage(flags, p, js, hjs_ok) ==
    IF BitAnd(flags, LOG_JSON_HTTP) # 0 /\ p.flow # NULL
       /\ Deref(p.flow).alproto = "http"
    THEN AlertJsonHttp(Deref(p.flow), js, hjs_ok)
    ELSE js

\* Lines 191-246.
PayloadStage(flags, p, pa, js) ==
    IF BitAnd(flags, BitOr(LOG_JSON_PAYLOAD, LOG_JSON_PAYLOAD_BASE64)) # 0 THEN
        LET stream == IF p.proto = "tcp" /\ pa.flags_stream THEN 1 ELSE 0
            from == IF stream = 1
                    THEN (IF p.dir = "toserver" THEN "stream-toclient" ELSE "stream-toserver")
                    ELSE "packet-payload"
        IN [js EXCEPT
              !.payload = IF BitAnd(flags, LOG_JSON_PAYLOAD_BASE64) # 0
                          THEN Ptr(<<"base64", from>>) ELSE @,
              !.payload_printable = IF BitAnd(flags, LOG_JSON_PAYLOAD) # 0
                                    THEN Ptr(<<"printable", from>>) ELSE @,
              !.stream = Ptr(stream)]
    ELSE js

\* Lines 248-254.
PacketStage(flags, p, js) ==
    IF BitAnd(flags, LOG_JSON_PACKET) # 0
    THEN [js EXCEPT !.packet = Ptr(<<"base64", "packet">>)]
    ELSE js

\* The key Overwrite mode replaces, with the test of the direction inverted.
OverwriteKeyInverted(p) == IF p.dir = "toclient" THEN "src_ip" ELSE "dest_ip"

\* The key Overwrite mode replaces (lines 279-283).
OverwriteKey(p) == IF p.dir = "toclient" THEN "dest_ip" ELSE "src_ip"

\* Lines 259-272: [ret, dstbuf] of the extraction for one alert; buffer is
\* what char buffer[XFF_MAXLEN] held before.
XffExtract(xff_cfg, p, pa, buffer) ==
    IF BitAnd(xff_cfg.mode, XFF_DISABLED) = 0 /\ p.flow # NULL
       /\ Deref(p.flow).alproto = "http"
    THEN IF pa.flags_tx
         THEN GetXFFIPFromTx(Deref(p.flow), pa.tx_id, Deref(xff_cfg.header), buffer, XFF_MAXLEN)
         ELSE GetXFFIP(Deref(p.flow), Deref(xff_cfg.header), buffer, XFF_MAXLEN)
    ELSE [ret |-> 0, dstbuf |-> buffer]

\* Lines 274-285.
XffAttach(xff_cfg, p, have_xff_ip, buffer, js) ==
    IF BitAnd(xff_cfg.mode, XFF_DISABLED) = 0 /\ p.flow # NULL /\ have_xff_ip # 0 THEN
        IF BitAnd(xff_cfg.mode, XFF_EXTRADATA) # 0
        THEN [js EXCEPT !.xff = Ptr(buffer)]
        ELSE IF BitAnd(xff_cfg.mode, XFF_OVERWRITE) # 0
        THEN [js EXCEPT ![OverwriteKey(p)] = Ptr(buffer)]
        ELSE js
    ELSE js

\* json_object_del(js, "alert")
DelAlert(js) == [js EXCEPT !.alert = NULL]

(***************************************************************************)
(* Worker start and stop (JsonAlertLogThreadInit, JsonAlertLogThreadDeinit)*)
(* over a heap: a sequence of objects, an object's address its index.      *)
(***************************************************************************)
MaxThreadCalls == 4    \* calls of the two entry points together

\* SCMalloc / MemBufferCreateNew: the heap with one more live object.
HeapAlloc(heap, obj) == Append(heap, obj)

\* SCFree(a): the object is released; frees counts the releases.
HeapFree(heap, a) ==
    [heap EXCEPT ![a].state = "freed", ![a].frees = @ + 1]

\* MemBufferFree(b): SCFree unless b is NULL.
MemBufferFree(heap, b) == IF b = NULL THEN heap ELSE HeapFree(heap, Deref(b))

NewThread ==
    [kind |-> "JsonAlertLogThread", state |-> "live", frees |-> 0, owner |-> 0,
     json_buffer |-> NULL, payload_buffer |-> NULL, json_output_ctx |-> NULL]

NewMemBuffer(thr) ==
    [kind |-> "MemBuffer", state |-> "live", frees |-> 0, owner |-> thr,
     json_buffer |-> NULL, payload_buffer |-> NULL, json_output_ctx |-> NULL]

\* JsonAlertLogThreadInit(t, initdata, data): [ret, data, heap]; fails names
\* the allocation that returns NULL ("none" when all succeed), data is
\* what *data held before.
ThreadInit(heap, initdata, data, fails) ==
    IF fails = "aft" THEN [ret |-> TM_ECODE_FAILED, data |-> data, heap |-> heap]
    ELSE
    LET thr == Len(heap) + 1
        h1 == HeapAlloc(heap, NewThread)
    IN
    IF initdata = NULL
    THEN [ret |-> TM_ECODE_FAILED, data |-> data, heap |-> HeapFree(h1, thr)]
    ELSE IF fails = "json_buffer"
    THEN [ret |-> TM_ECODE_FAILED, data |-> data, heap |-> HeapFree(h1, thr)]
    ELSE
    LET jb == thr + 1
        h2 == [HeapAlloc(h1, NewMemBuffer(thr)) EXCEPT ![thr].json_buffer = Ptr(jb)]
    IN
    IF fails = "payload_buffer"
    THEN [ret |-> TM_ECODE_FAILED, data |-> data, heap |-> HeapFree(h2, thr)]
    ELSE
    LET pb == thr + 2
        h3 == [HeapAlloc(h2, NewMemBuffer(thr)) EXCEPT
                  ![thr].payload_buffer = Ptr(pb),
                  ![thr].json_output_ctx = Deref(initdata).data]
    IN [ret |-> TM_ECODE_OK, data |-> Ptr(thr), heap |-> h3]

\* The two MemBuffers ThreadInit created for the thread data at aft, which
\* sit right behind it in the heap when they exist.
BuffersOf(heap, thr) ==
    {b \in 1..Len(heap) : heap[b].kind = "MemBuffer" /\ heap[b].owner = thr}

\* What the reads of aft->json_buffer and aft->payload_buffer give once the
\* thread data is released: the zeros of the memset, or, where the compiler
\* dropped the memset before SCFree as a dead store, the old pointers.
ReleasedReads == {"fault", "zeros", "stale"}

\* JsonAlertLogThreadDeinit(t, data): [ret, heap, uaf, crashed]; reads says
\* what reading released memory yields, uaf whether released memory was
\* read or written.
ThreadDeinit(heap, data, reads) ==
    IF data = NULL
    THEN [ret |-> TM_ECODE_OK, heap |-> heap, uaf |-> FALSE, crashed |-> FALSE]
    ELSE
    LET thr == Deref(data) IN
    IF heap[thr].state = "live"
    THEN LET h1 == MemBufferFree(heap, heap[thr].json_buffer)
             h2 == MemBufferFree(h1, heap[thr].payload_buffer)
             h3 == [h2 EXCEPT ![thr].json_buffer = NULL, ![thr].payload_buffer = NULL,
                              ![thr].json_output_ctx = NULL]
         IN [ret |-> TM_ECODE_OK, heap |-> HeapFree(h3, thr), uaf |-> FALSE,
             crashed |-> FALSE]
    ELSE IF reads = "fault"
    THEN [ret |-> TM_ECODE_OK, heap |-> heap, uaf |-> TRUE, crashed |-> TRUE]
    ELSE IF reads = "zeros"
    THEN [ret |-> TM_ECODE_OK, heap |-> HeapFree(heap, thr), uaf |-> TRUE,
          crashed |-> FALSE]
    ELSE LET bs == BuffersOf(heap, thr)
             h1 == [a \in 1..Len(heap) |->
                      IF a \in bs THEN [heap[a] EXCEPT !.frees = @ + 1] ELSE heap[a]]
         IN [ret |-> TM_ECODE_OK, heap |-> HeapFree(h1, thr), uaf |-> TRUE,
             crashed |-> FALSE]

\* The OutputCtx handed to ThreadInit as initdata.
ThreadInitData == {NULL, Ptr([data |-> Ptr(NewAlertJsonOutputCtx(NULL))])}

ThreadInitFails == {"none", "aft", "json_buffer", "payload_buffer"}

(***************************************************************************)
(* The flow read lock in AlertJson, with several workers                   *)
(***************************************************************************)
Workers == {"w1", "w2"}

\* The flows packets belong to, and FlowGetAppProtocol of each.
LockFlows == {"f1", "f2"}

FlowGetAppProtocol(f) == IF f = "f1" THEN "http" ELSE "dns"

\* p->alerts.alerts as far as the locking goes: whether pa->s is set.
LockAlertArrays == {<<>>, <<TRUE>>, <<FALSE, TRUE>>, <<TRUE, TRUE>>}

\* A worker outside AlertJson has no packet.
NoPacket == [flow |-> NULL, alerts |-> <<>>]

LockPackets ==
    [flow : {NULL} \cup {Ptr(f) : f \in LockFlows}, alerts : LockAlertArrays]

\* What the build and the configuration fix for all workers: the flags of
\* the output context, what the load of xff_cfg->mode yields (NULL: it
\* faults), and whether FLOWLOCK is a mutex rather than a rwlock.
LockBuilds ==
    [flags : {0, LOG_JSON_HTTP},
     xff_mode : {NULL, Ptr(XFF_DISABLED), Ptr(XFF_EXTRADATA)},
     mutex : BOOLEAN]

\* FLOWLOCK_RDLOCK(f) by worker w can go ahead.
FlowLockFree(readers, w, mutex) == w \notin readers /\ (mutex => readers = {})

\* FLOWLOCK_RDLOCK(f) by worker w, on the holders of the lock of f.
FLOWLOCK_RDLOCK(readers, w) == readers \cup {w}

\* The unlock left out.
FlowUnlockNoop(readers, w) == readers

\* FLOWLOCK_UNLOCK(f) by worker w.
FLOWLOCK_UNLOCK(readers, w) == readers \ {w}

\* Lines 178-179: whether the http stage takes the lock.
HttpLocks(flags, p) == BitAnd(flags, LOG_JSON_HTTP) # 0 /\ p.flow # NULL

\* Line 259: whether the XFF stage takes the lock.
XffLocks(mode, p) == BitAnd(mode, XFF_DISABLED) = 0 /\ p.flow # NULL

(***************************************************************************)
(* Inputs of the alert output: configurations, flows, packets              *)
(***************************************************************************)
FlagValues == {NULL, Ptr("yes")}

LogConfs ==
    {NULL,
     Ptr([xff |-> NULL, http |-> Ptr("no"), payload |-> Ptr("false"),
          payload_printable |-> NULL, packet |-> Ptr("no")])}
    \cup {Ptr([xff |-> NULL, http |-> a, payload |-> b, payload_printable |-> c,
               packet |-> d]) :
            a \in FlagValues, b \in FlagValues, c \in FlagValues, d \in FlagValues}

\* The outcomes of the load through the NULL xff_cfg: a fault, or a mode byte
\* (its three low bits are all AlertJson tests) and a header name.
UbModes == {0, XFF_DISABLED, XFF_EXTRADATA, XFF_OVERWRITE}

UbLoads == {NULL} \cup {Ptr([mode |-> m, header |-> Ptr(XFF_DEFAULT)]) : m \in UbModes}

Ex_chain_ok == T_10_0_0_1 \o <<",", " ">> \o T_203_0_113_5

Ex_chain_bad == T_10_0_0_1 \o <<",", " ">> \o T_not_an_ip

Tx_chain == Tx(<<Hdr("Host", T_not_an_ip), Hdr("X-Forwarded-For", Ex_chain_ok)>>)

Tx_plain == Tx(<<Hdr("Host", T_not_an_ip)>>)

Tx_single == Tx(<<Hdr("x-forwarded-for", T_1_1_1_1)>>)

Tx_bad == Tx(<<Hdr("X-Forwarded-For", Ex_chain_bad)>>)

LogFlows ==
    {NULL,
     Ptr([alproto |-> "dns", alstate |-> NULL, log_id |-> 0]),
     Ptr([alproto |-> "http", alstate |-> NULL, log_id |-> 0]),
     Ptr([alproto |-> "http", alstate |-> Ptr([txs |-> <<Tx_chain, Tx_plain>>]), log_id |-> 0]),
     Ptr([alproto |-> "http", alstate |-> Ptr([txs |-> <<Tx_plain, Tx_single>>]), log_id |-> 1]),
     Ptr([alproto |-> "http", alstate |-> Ptr([txs |-> <<Tx_chain, Tx_single>>]), log_id |-> 0]),
     Ptr([alproto |-> "http", alstate |-> Ptr([txs |-> <<Tx_bad>>]), log_id |-> 1])}

AlertKinds == {"nullsig", "plain", "tx0", "tx1"}

\* The PacketAlert of a kind at position n of p->alerts.alerts; the
\* signature id is the position.  "plain" is a stream match of a signature
\* without msg or class_msg; "tx0" and "tx1" are scoped to a transaction.
MkAlert(kind, n) ==
    [s |-> IF kind = "nullsig" THEN NULL
           ELSE Ptr([gid |-> 1, id |-> n, rev |-> 1,
                     msg |-> IF kind = "plain" THEN NULL ELSE Ptr("msg"),
                     class_msg |-> IF kind = "plain" THEN NULL ELSE Ptr("class"),
                     prio |-> 3]),
     action |-> IF kind = "tx1" THEN {"REJECT"}
                ELSE IF kind = "plain" THEN {"DROP"} ELSE {},
     flags_tx |-> kind \in {"tx0", "tx1"},
     flags_stream |-> kind = "plain",
     tx_id |-> IF kind = "tx1" THEN 1 ELSE 0]

AlertArrays(kinds) ==
    UNION {{[n \in 1..cnt |-> MkAlert(ks[n], n)] : ks \in [1..cnt -> kinds]} :
           cnt \in 0..MaxAlerts}

PktSrc == <<"s", "r", "c">>

PktDst == <<"d", "s", "t">>

IpPackets ==
    {[is_ip |-> TRUE, proto |-> pd[1], dir |-> pd[2], flow |-> f, alerts |-> al,
      src |-> PktSrc, dst |-> PktDst] :
        pd \in {<<"tcp", "toserver">>, <<"tcp", "toclient">>, <<"udp", "toserver">>},
        f \in LogFlows, al \in AlertArrays(AlertKinds)}

NonIpPackets ==
    {[is_ip |-> FALSE, proto |-> "none", dir |-> "toserver", flow |-> NULL,
      alerts |-> al, src |-> PktSrc, dst |-> PktDst] :
        al \in AlertArrays({"nullsig", "plain"})}

Packets == IpPackets \cup NonIpPackets

InitXffOwn ==
    /\ x_flow \in XffFlows
    /\ x_call = [fn |-> "none", tx_id |-> 0, header |-> XFF_DEFAULT]
    /\ x_dstbuf = Unwritten
    /\ x_ret = 0

CallGetXFFIPFromTx ==
    /\ x_call.fn = "none"
    /\ \E tx_id \in 0..MaxTxs, h \in ConfiguredHeaders :
        LET r == GetXFFIPFromTx(x_flow, tx_id, h, x_dstbuf, XFF_MAXLEN) IN
        /\ x_call' = [fn |-> "GetXFFIPFromTx", tx_id |-> tx_id, header |-> h]
        /\ x_ret' = r.ret
        /\ x_dstbuf' = r.dstbuf
    /\ UNCHANGED x_flow

CallGetXFFIP ==
    /\ x_call.fn = "none"
    /\ \E h \in ConfiguredHeaders :
        LET r == GetXFFIP(x_flow, h, x_dstbuf, XFF_MAXLEN) IN
        /\ x_call' = [fn |-> "GetXFFIP", tx_id |-> 0, header |-> h]
        /\ x_ret' = r.ret
        /\ x_dstbuf' = r.dstbuf
    /\ UNCHANGED x_flow

(***************************************************************************)
(* SpecCfg: the resolver applied, up to MaxResolves times, to one XFFCfg.  *)
(***************************************************************************)
InitCfgOwn ==
    /\ c_result = ZeroedXFFCfg
    /\ c_conf = NULL
    /\ c_calls = 0

CallGetXFFCfg ==
    /\ c_calls < MaxResolves
    /\ \E conf \in XffConfs :
        /\ c_result' = GetXFFCfg(conf, c_result)
        /\ c_conf' = Ptr(conf)
    /\ c_calls' = c_calls + 1

(***************************************************************************)
(* Spec: output context creation, thread init, and the log entry point     *)
(* run stage by stage over one packet.                                     *)
(***************************************************************************)
InitLogOwn ==
    /\ l_conf \in LogConfs
    /\ ub_xff_cfg \in UbLoads
    /\ octx = NULL
    /\ aft = NULL
    /\ pc = "start"
    /\ pkt = NULL
    /\ l_i = 0
    /\ l_js = NULL
    /\ l_have_xff_ip = 0
    /\ l_buffer = Unwritten
    /\ emitted = <<>>
    /\ ret = TM_ECODE_OK
    /\ alloc_failed = FALSE

\* JsonAlertLogInitCtxSub: NULL when SCCalloc or SCMalloc fails.
JsonAlertLogInitCtxSub ==
    /\ pc = "start"
    /\ \E ok \in BOOLEAN :
        IF ok
        THEN octx' = Ptr(NewAlertJsonOutputCtx(l_conf)) /\ pc' = "ctx"
        ELSE octx' = NULL /\ pc' = "noctx"
    /\ UNCHANGED <<l_conf, ub_xff_cfg, aft, pkt, l_i, l_js, l_have_xff_ip, l_buffer, emitted,
                   ret, alloc_failed>>

\* JsonAlertLogThreadInit: the thread data bound to the output context, or
\* TM_ECODE_FAILED when one of its three allocations fails.
JsonAlertLogThreadInit ==
    /\ pc = "ctx"
    /\ \E ok \in BOOLEAN :
        IF ok
        THEN /\ aft' = Ptr([json_buffer |-> "allocated", payload_buffer |-> "allocated",
                            json_output_ctx |-> octx])
             /\ ret' = TM_ECODE_OK
             /\ pc' = "idle"
        ELSE /\ aft' = NULL
             /\ ret' = TM_ECODE_FAILED
             /\ pc' = "thread_failed"
    /\ UNCHANGED <<l_conf, ub_xff_cfg, octx, pkt, l_i, l_js, l_have_xff_ip, l_buffer, emitted,
                   alloc_failed>>

CurPacket == Deref(pkt)

CurAlert == CurPacket.alerts[l_i]

CurCtx == Deref(Deref(aft).json_output_ctx)

\* The XFFCfg read through json_output_ctx->xff_cfg: NULL when the read faults.
LoadXFFCfg(ctx) == IF ctx.xff_cfg # NULL THEN ctx.xff_cfg ELSE ub_xff_cfg

\* JsonAlertLogger up to the first alert: AlertJson's early return and
\* CreateJSONHeader for an IP packet, AlertJsonDecoderEvent otherwise.
JsonAlertLogger ==
    /\ pc = "idle"
    /\ \E p \in Packets :
        /\ pkt' = Ptr(p)
        /\ IF p.is_ip THEN
              IF Len(p.alerts) = 0
              THEN /\ ret' = TM_ECODE_OK /\ pc' = "done"
                   /\ UNCHANGED <<l_js, l_i, alloc_failed>>
              ELSE \E hdr_ok \in BOOLEAN :
                    IF hdr_ok
                    THEN /\ l_js' = Ptr(CreateJSONHeader(p)) /\ l_i' = 1 /\ pc' = "alert"
                         /\ UNCHANGED <<ret, alloc_failed>>
                    ELSE /\ alloc_failed' = TRUE /\ ret' = TM_ECODE_OK /\ pc' = "done"
                         /\ UNCHANGED <<l_js, l_i>>
           ELSE IF Len(p.alerts) > 0
              THEN /\ l_i' = 1 /\ pc' = "decoder"
                   /\ UNCHANGED <<l_js, ret, alloc_failed>>
              ELSE /\ ret' = 0 /\ pc' = "done"
                   /\ UNCHANGED <<l_js, l_i, alloc_failed>>
    /\ UNCHANGED <<l_conf, ub_xff_cfg, octx, aft, l_have_xff_ip, l_buffer, emitted>>

\* AlertJson lines 143-176: the loop head, the skip of an alert without a
\* signature, and the alert object; lines 291-294 once the loop is over.
AlertJsonAlert ==
    /\ pc = "alert"
    /\ IF l_i > Len(CurPacket.alerts)
       THEN /\ l_js' = NULL /\ ret' = TM_ECODE_OK /\ pc' = "done"
            /\ UNCHANGED <<l_i, alloc_failed>>
       ELSE IF CurAlert.s = NULL
       THEN /\ l_i' = l_i + 1
            /\ UNCHANGED <<l_js, ret, pc, alloc_failed>>
       ELSE \E ajs_ok \in BOOLEAN :
            IF ajs_ok
            THEN /\ l_js' = Ptr([Deref(l_js) EXCEPT !.alert = Ptr(AlertObject(CurAlert))])
                 /\ pc' = "http"
                 /\ UNCHANGED <<l_i, ret, alloc_failed>>
            ELSE /\ l_js' = NULL /\ alloc_failed' = TRUE
                 /\ ret' = TM_ECODE_OK /\ pc' = "done"
                 /\ UNCHANGED l_i
    /\ UNCHANGED <<l_conf, ub_xff_cfg, octx, aft, pkt, l_have_xff_ip, l_buffer, emitted>>

\* AlertJson lines 178-189.
AlertJsonHttpStage ==
    /\ pc = "http"
    /\ \E hjs_ok \in BOOLEAN :
        /\ (HttpAllocates(CurCtx.flags, CurPacket) \/ hjs_ok)
        /\ l_js' = Ptr(HttpStage(CurCtx.flags, CurPacket, Deref(l_js), hjs_ok))
        /\ alloc_failed' = (alloc_failed \/ ~hjs_ok)
    /\ pc' = "payload"
    /\ UNCHANGED <<l_conf, ub_xff_cfg, octx, aft, pkt, l_i, l_have_xff_ip, l_buffer, emitted,
                   ret>>

\* AlertJson lines 191-246.
AlertJsonPayloadStage ==
    /\ pc = "payload"
    /\ l_js' = Ptr(PayloadStage(CurCtx.flags, CurPacket, CurAlert, Deref(l_js)))
    /\ pc' = "packet"
    /\ UNCHANGED <<l_conf, ub_xff_cfg, octx, aft, pkt, l_i, l_have_xff_ip, l_buffer, emitted,
                   ret, alloc_failed>>

\* AlertJson lines 248-254.
AlertJsonPacketStage ==
    /\ pc = "packet"
    /\ l_js' = Ptr(PacketStage(CurCtx.flags, CurPacket, Deref(l_js)))
    /\ pc' = "xff"
    /\ UNCHANGED <<l_conf, ub_xff_cfg, octx, aft, pkt, l_i, l_have_xff_ip, l_buffer, emitted,
                   ret, alloc_failed>>

\* AlertJson lines 256-286.  The read of xff_cfg->mode through a NULL
\* xff_cfg either faults, which ends the worker, or yields ub_xff_cfg.
AlertJsonXffStage ==
    /\ pc = "xff"
    /\ LET xff_cfg == LoadXFFCfg(CurCtx) IN
       IF xff_cfg = NULL
       THEN /\ pc' = "crashed"
            /\ UNCHANGED <<l_js, l_have_xff_ip, l_buffer>>
       ELSE LET r == XffExtract(Deref(xff_cfg), CurPacket, CurAlert, Unwritten) IN
            /\ l_have_xff_ip' = r.ret
            /\ l_buffer' = r.dstbuf
            /\ l_js' = Ptr(XffAttach(Deref(xff_cfg), CurPacket, r.ret, r.dstbuf, Deref(l_js)))
            /\ pc' = "emit"
    /\ UNCHANGED <<l_conf, ub_xff_cfg, octx, aft, pkt, l_i, emitted, ret, alloc_failed>>

\* AlertJson lines 288-289: OutputJSONBuffer, then json_object_del "alert".
AlertJsonEmit ==
    /\ pc = "emit"
    /\ emitted' = Append(emitted, Deref(l_js))
    /\ l_js' = Ptr(DelAlert(Deref(l_js)))
    /\ l_i' = l_i + 1
    /\ pc' = "alert"
    /\ UNCHANGED <<l_conf, ub_xff_cfg, octx, aft, pkt, l_have_xff_ip, l_buffer, ret,
                   alloc_failed>>

\* AlertJsonDecoderEvent, one pass of its loop.
AlertJsonDecoderEvent ==
    /\ pc = "decoder"
    /\ IF l_i > Len(CurPacket.alerts)
       THEN /\ ret' = TM_ECODE_OK /\ pc' = "done"
            /\ UNCHANGED <<l_i, emitted, alloc_failed>>
       ELSE IF CurAlert.s = NULL
       THEN /\ l_i' = l_i + 1
            /\ UNCHANGED <<ret, pc, emitted, alloc_failed>>
       ELSE \E objs_ok \in BOOLEAN :
            IF objs_ok
            THEN /\ emitted' = Append(emitted, DecoderEventObject(CurAlert))
                 /\ l_i' = l_i + 1
                 /\ UNCHANGED <<ret, pc, alloc_failed>>
            ELSE /\ alloc_failed' = TRUE /\ ret' = TM_ECODE_OK /\ pc' = "done"
                 /\ UNCHANGED <<l_i, emitted>>
    /\ UNCHANGED <<l_conf, ub_xff_cfg, octx, aft, pkt, l_js, l_have_xff_ip, l_buffer>>

(***************************************************************************)
(* SpecThr: any sequence of worker start and stop calls.                   *)
(***************************************************************************)
InitThrOwn ==
    /\ t_heap = <<>>
    /\ t_data = NULL
    /\ t_last = [fn |-> "none", arg |-> NULL, fails |-> "none"]
    /\ t_ret = TM_ECODE_OK
    /\ t_uaf = FALSE
    /\ t_crashed = FALSE
    /\ t_calls = 0

\* The thread data pointers the pipeline has been given so far.
GivenThreads ==
    {a \in 1..Len(t_heap) :
        t_heap[a].kind = "JsonAlertLogThread" /\ BuffersOf(t_heap, a) # {}
        /\ Cardinality(BuffersOf(t_heap, a)) = 2}

\* A worker start: *data is NULL before the call.
CallThreadInit ==
    /\ ~t_crashed
    /\ t_calls < MaxThreadCalls
    /\ \E initdata \in ThreadInitData, fails \in ThreadInitFails :
        LET r == ThreadInit(t_heap, initdata, NULL, fails) IN
        /\ t_heap' = r.heap
        /\ t_data' = r.data
        /\ t_ret' = r.ret
        /\ t_last' = [fn |-> "init", arg |-> initdata, fails |-> fails]
    /\ t_calls' = t_calls + 1
    /\ UNCHANGED <<t_uaf, t_crashed>>

\* A worker stop, on NULL or on a thread data pointer handed out before,
\* torn down already or not.
CallThreadDeinit ==
    /\ ~t_crashed
    /\ t_calls < MaxThreadCalls
    /\ \E data \in {NULL} \cup {Ptr(a) : a \in GivenThreads}, reads \in ReleasedReads :
        LET r == ThreadDeinit(t_heap, data, reads) IN
        /\ t_heap' = r.heap
        /\ t_ret' = r.ret
        /\ t_uaf' = (t_uaf \/ r.uaf)
        /\ t_crashed' = r.crashed
        /\ t_last' = [fn |-> "deinit", arg |-> data, fails |-> "none"]
    /\ t_calls' = t_calls + 1
    /\ UNCHANGED t_data

(***************************************************************************)
(* SpecLock: the workers run AlertJson side by side, step by step.         *)
(***************************************************************************)
InitLockOwn ==
    /\ k_build \in LockBuilds
    /\ k_pc = [w \in Workers |-> "idle"]
    /\ k_pkt = [w \in Workers |-> NoPacket]
    /\ k_i = [w \in Workers |-> 0]
    /\ k_readers = [f \in LockFlows |-> {}]
    /\ k_crashed = FALSE

KFlow(w) == Deref(k_pkt[w].flow)

\* AlertJson returns: its locals are gone.
Return(w) ==
    /\ k_pc' = [k_pc EXCEPT ![w] = "idle"]
    /\ k_pkt' = [k_pkt EXCEPT ![w] = NoPacket]
    /\ k_i' = [k_i EXCEPT ![w] = 0]

\* AlertJson up to the loop: the early return and CreateJSONHeader.
LockEntry(w) ==
    /\ ~k_crashed /\ k_pc[w] = "idle"
    /\ \E p \in LockPackets, hdr_ok \in BOOLEAN :
        IF Len(p.alerts) > 0 /\ hdr_ok
        THEN /\ k_pkt' = [k_pkt EXCEPT ![w] = p]
             /\ k_pc' = [k_pc EXCEPT ![w] = "alert"]
             /\ k_i' = [k_i EXCEPT ![w] = 1]
        ELSE UNCHANGED <<k_pkt, k_pc, k_i>>
    /\ UNCHANGED <<k_build, k_readers, k_crashed>>

\* Lines 143-179: the loop head and the alert object, up to the http stage.
LockAlert(w) ==
    /\ ~k_crashed /\ k_pc[w] = "alert"
    /\ IF k_i[w] > Len(k_pkt[w].alerts)
       THEN Return(w)
       ELSE IF ~k_pkt[w].alerts[k_i[w]]
       THEN k_i' = [k_i EXCEPT ![w] = @ + 1] /\ UNCHANGED <<k_pc, k_pkt>>
       ELSE \E ajs_ok \in BOOLEAN :
            IF ~ajs_ok THEN Return(w)
            ELSE /\ k_pc' = [k_pc EXCEPT ![w] =
                          IF HttpLocks(k_build.flags, k_pkt[w]) THEN "http_lock"
                          ELSE "payload"]
                 /\ UNCHANGED <<k_i, k_pkt>>
    /\ UNCHANGED <<k_build, k_readers, k_crashed>>

\* Line 180.
LockHttpAcquire(w) ==
    /\ ~k_crashed /\ k_pc[w] = "http_lock"
    /\ FlowLockFree(k_readers[KFlow(w)], w, k_build.mutex)
    /\ k_readers' = [k_readers EXCEPT ![KFlow(w)] = FLOWLOCK_RDLOCK(@, w)]
    /\ k_pc' = [k_pc EXCEPT ![w] = "http_read"]
    /\ UNCHANGED <<k_build, k_pkt, k_i, k_crashed>>

\* Lines 181-185: FlowGetAppProtocol and AlertJsonHttp, which returns to
\* line 187 also when its allocation fails.
LockHttpRead(w) ==
    /\ ~k_crashed /\ k_pc[w] = "http_read"
    /\ \E hjs_ok \in BOOLEAN : k_pc' = [k_pc EXCEPT ![w] = "http_unlock"]
    /\ UNCHANGED <<k_build, k_pkt, k_i, k_readers, k_crashed>>

\* Line 187.
LockHttpRelease(w) ==
    /\ ~k_crashed /\ k_pc[w] = "http_unlock"
    /\ k_readers' = [k_readers EXCEPT ![KFlow(w)] = FLOWLOCK_UNLOCK(@, w)]
    /\ k_pc' = [k_pc EXCEPT ![w] = "payload"]
    /\ UNCHANGED <<k_build, k_pkt, k_i, k_crashed>>

\* Lines 191-259: the payload and packet stages and the load of
\* xff_cfg->mode, which may fault.
LockPayload(w) ==
    /\ ~k_crashed /\ k_pc[w] = "payload"
    /\ IF k_build.xff_mode = NULL
       THEN k_crashed' = TRUE /\ k_pc' = [k_pc EXCEPT ![w] = "crashed"]
       ELSE /\ k_pc' = [k_pc EXCEPT ![w] =
                          IF XffLocks(Deref(k_build.xff_mode), k_pkt[w])
                          THEN "xff_lock" ELSE "write"]
            /\ UNCHANGED k_crashed
    /\ UNCHANGED <<k_build, k_pkt, k_i, k_readers>>

\* Line 262.
LockXffAcquire(w) ==
    /\ ~k_crashed /\ k_pc[w] = "xff_lock"
    /\ FlowLockFree(k_readers[KFlow(w)], w, k_build.mutex)
    /\ k_readers' = [k_readers EXCEPT ![KFlow(w)] = FLOWLOCK_RDLOCK(@, w)]
    /\ k_pc' = [k_pc EXCEPT ![w] = "xff_read"]
    /\ UNCHANGED <<k_build, k_pkt, k_i, k_crashed>>

\* Lines 263-271: FlowGetAppProtocol and GetXFFIPFromTx or GetXFFIP.
LockXffRead(w) ==
    /\ ~k_crashed /\ k_pc[w] = "xff_read"
    /\ k_pc' = [k_pc EXCEPT ![w] = "xff_unlock"]
    /\ UNCHANGED <<k_build, k_pkt, k_i, k_readers, k_crashed>>

\* Line 272.
LockXffRelease(w) ==
    /\ ~k_crashed /\ k_pc[w] = "xff_unlock"
    /\ k_readers' = [k_readers EXCEPT ![KFlow(w)] = FLOWLOCK_UNLOCK(@, w)]
    /\ k_pc' = [k_pc EXCEPT ![w] = "write"]
    /\ UNCHANGED <<k_build, k_pkt, k_i, k_crashed>>

\* Lines 274-289: the attach, OutputJSONBuffer and json_object_del.
LockWrite(w) ==
    /\ ~k_crashed /\ k_pc[w] = "write"
    /\ k_i' = [k_i EXCEPT ![w] = @ + 1]
    /\ k_pc' = [k_pc EXCEPT ![w] = "alert"]
    /\ UNCHANGED <<k_build, k_pkt, k_readers, k_crashed>>

(***************************************************************************)
(* The three specifications.  Each leaves the others' variables at rest.   *)
(***************************************************************************)
XffAtRest ==
    /\ x_flow = NoStateFlow
    /\ x_call = [fn |-> "none", tx_id |-> 0, header |-> XFF_DEFAULT]
    /\ x_dstbuf = Unwritten
    /\ x_ret = 0

LogAtRest ==
    /\ l_conf = NULL
    /\ ub_xff_cfg = NULL
    /\ octx = NULL
    /\ aft = NULL
    /\ pc = "off"
    /\ pkt = NULL
    /\ l_i = 0
    /\ l_js = NULL
    /\ l_have_xff_ip = 0
    /\ l_buffer = Unwritten
    /\ emitted = <<>>
    /\ ret = TM_ECODE_OK
    /\ alloc_failed = FALSE

LockAtRest ==
    /\ k_build = [flags |-> 0, xff_mode |-> NULL, mutex |-> FALSE]
    /\ k_pc = [w \in Workers |-> "off"]
    /\ k_pkt = [w \in Workers |-> NoPacket]
    /\ k_i = [w \in Workers |-> 0]
    /\ k_readers = [f \in LockFlows |-> {}]
    /\ k_crashed = FALSE

InitXff == InitXffOwn /\ InitCfgOwn /\ LogAtRest /\ InitThrOwn /\ LockAtRest

NextXff ==
    \/ CallGetXFFIPFromTx /\ UNCHANGED <<cvars, lvars, tvars, kvars>>
    \/ CallGetXFFIP /\ UNCHANGED <<cvars, lvars, tvars, kvars>>

SpecXff == InitXff /\ [][NextXff]_vars

InitCfg == XffAtRest /\ InitCfgOwn /\ LogAtRest /\ InitThrOwn /\ LockAtRest

NextCfg == CallGetXFFCfg /\ UNCHANGED <<xvars, lvars, tvars, kvars>>

SpecCfg == InitCfg /\ [][NextCfg]_vars

Init == XffAtRest /\ InitCfgOwn /\ InitLogOwn /\ InitThrOwn /\ LockAtRest

Next ==
    \/ JsonAlertLogInitCtxSub /\ UNCHANGED <<xvars, cvars, tvars, kvars>>
    \/ JsonAlertLogThreadInit /\ UNCHANGED <<xvars, cvars, tvars, kvars>>
    \/ JsonAlertLogger /\ UNCHANGED <<xvars, cvars, tvars, kvars>>
    \/ AlertJsonAlert /\ UNCHANGED <<xvars, cvars, tvars, kvars>>
    \/ AlertJsonHttpStage /\ UNCHANGED <<xvars, cvars, tvars, kvars>>
    \/ AlertJsonPayloadStage /\ UNCHANGED <<xvars, cvars, tvars, kvars>>
    \/ AlertJsonPacketStage /\ UNCHANGED <<xvars, cvars, tvars, kvars>>
    \/ AlertJsonXffStage /\ UNCHANGED <<xvars, cvars, tvars, kvars>>
    \/ AlertJsonEmit /\ UNCHANGED <<xvars, cvars, tvars, kvars>>
    \/ AlertJsonDecoderEvent /\ UNCHANGED <<xvars, cvars, tvars, kvars>>

Spec == Init /\ [][Next]_vars

InitThr == XffAtRest /\ InitCfgOwn /\ LogAtRest /\ InitThrOwn /\ LockAtRest

NextThr ==
    \/ CallThreadInit /\ UNCHANGED <<xvars, cvars, lvars, kvars>>
    \/ CallThreadDeinit /\ UNCHANGED <<xvars, cvars, lvars, kvars>>

SpecThr == InitThr /\ [][NextThr]_vars

InitLock == XffAtRest /\ InitCfgOwn /\ LogAtRest /\ InitThrOwn /\ InitLockOwn

NextLock ==
    \/ \E w \in Workers : LockEntry(w) /\ UNCHANGED <<xvars, cvars, lvars, tvars>>
    \/ \E w \in Workers : LockAlert(w) /\ UNCHANGED <<xvars, cvars, lvars, tvars>>
    \/ \E w \in Workers : LockHttpAcquire(w) /\ UNCHANGED <<xvars, cvars, lvars, tvars>>
    \/ \E w \in Workers : LockHttpRead(w) /\ UNCHANGED <<xvars, cvars, lvars, tvars>>
    \/ \E w \in Workers : LockHttpRelease(w) /\ UNCHANGED <<xvars, cvars, lvars, tvars>>
    \/ \E w \in Workers : LockPayload(w) /\ UNCHANGED <<xvars, cvars, lvars, tvars>>
    \/ \E w \in Workers : LockXffAcquire(w) /\ UNCHANGED <<xvars, cvars, lvars, tvars>>
    \/ \E w \in Workers : LockXffRead(w) /\ UNCHANGED <<xvars, cvars, lvars, tvars>>
    \/ \E w \in Workers : LockXffRelease(w) /\ UNCHANGED <<xvars, cvars, lvars, tvars>>
    \/ \E w \in Workers : LockWrite(w) /\ UNCHANGED <<xvars, cvars, lvars, tvars>>

SpecLock == InitLock /\ [][NextLock]_vars

(***************************************************************************)
(* Claims about the extractor (checked under SpecXff)                      *)
(***************************************************************************)
\* The value of the request header named h on transaction tx_id of flow f,
\* as a pointer: NULL when the flow has no HTTP state, the index is out of
\* range, the transaction is gone or has no such header.
NamedValue(f, tx_id, h) ==
    IF f.alstate = NULL THEN NULL
    ELSE IF tx_id >= Len(Deref(f.alstate).txs) THEN NULL
    ELSE LET tx == Deref(f.alstate).txs[tx_id + 1] IN
         IF tx = NULL \/ Deref(tx).request_headers = NULL THEN NULL
         ELSE LET hit == htp_table_get_c(Deref(Deref(tx).request_headers), h) IN
              IF hit = NULL THEN NULL ELSE Ptr(Deref(hit).value)

\* The text after the last space of v, or all of v when it has no space.
Candidate(v) ==
    LET k == CHOOSE k \in 1..(Len(v) + 1) :
                /\ \A j \in k..Len(v) : v[j] # " "
                /\ (k = 1 \/ v[k - 1] = " ")
    IN SubSeq(v, k, Len(v))

IsIPLiteral(s) == inet_pton4(s) \/ inet_pton6(s)

\* C1: GetXFFIPFromTx, for a named header value of length in [7,256): the
\* candidate is the text after the last space (the whole value without a
\* space); found with exactly that candidate iff it is an IPv4 or IPv6
\* literal, else not-found with no earlier token tried.
C1_RightmostToken ==
    x_call.fn = "GetXFFIPFromTx" =>
        LET nv == NamedValue(x_flow, x_call.tx_id, x_call.header) IN
        (nv # NULL /\ Len(Deref(nv)) >= 7 /\ Len(Deref(nv)) < 256) =>
            LET v == Deref(nv) IN
            /\ IF IsIPLiteral(Candidate(v))
               THEN x_ret = 1 /\ x_dstbuf = Candidate(v)
               ELSE x_ret = 0 /\ x_dstbuf = Unwritten
            /\ v = Ex_chain_ok => (x_ret = 1 /\ x_dstbuf = T_203_0_113_5)
            /\ v = Ex_chain_bad => x_ret = 0

C1_Witness ==
    /\ x_call.fn = "GetXFFIPFromTx"
    /\ NamedValue(x_flow, x_call.tx_id, x_call.header) = Ptr(Ex_chain_ok)
    /\ x_ret = 1
    /\ x_dstbuf = T_203_0_113_5

\* C2: GetXFFIPFromTx reports not-found and leaves the output buffer
\* unwritten when the flow has no HTTP state, the index is past the
\* transaction count, the header is missing, or its value is shorter than 7
\* or at least 256 bytes; the return value is 0 or 1, never an error code.
C2_FailsClosed ==
    x_call.fn = "GetXFFIPFromTx" =>
        LET nv == NamedValue(x_flow, x_call.tx_id, x_call.header) IN
        /\ x_ret \in {0, 1}
        /\ (\/ x_flow.alstate = NULL
            \/ x_call.tx_id >= Len(Deref(x_flow.alstate).txs)
            \/ nv = NULL
            \/ Len(Deref(nv)) < 7
            \/ Len(Deref(nv)) >= 256)
           => (x_ret = 0 /\ x_dstbuf = Unwritten)

C2_Witness ==
    LET nv == NamedValue(x_flow, x_call.tx_id, x_call.header) IN
    /\ x_call.fn = "GetXFFIPFromTx"
    /\ nv # NULL
    /\ Len(Deref(nv)) = 256
    /\ IsIPLiteral(Candidate(Deref(nv)))
    /\ x_ret = 0
    /\ x_dstbuf = Unwritten

\* The result GetXFFIPFromTx gives for transaction i, from an unwritten buffer.
FromTx(f, i, h) == GetXFFIPFromTx(f, i, h, Unwritten, XFF_MAXLEN)

Matching(f, h) ==
    IF f.alstate = NULL THEN {}
    ELSE {i \in 0..(Len(Deref(f.alstate).txs) - 1) : FromTx(f, i, h).ret = 1}

Lowest(S) == CHOOSE i \in S : \A j \in S : i <= j

\* C3: GetXFFIP returns what GetXFFIPFromTx gives for the lowest transaction
\* index that matches; not-found iff the flow has no HTTP state, no
\* transactions, or no matching transaction.
C3_LowestIndexWins ==
    x_call.fn = "GetXFFIP" =>
        LET M == Matching(x_flow, x_call.header) IN
        /\ x_ret = 0 <=> (\/ x_flow.alstate = NULL
                          \/ Len(Deref(x_flow.alstate).txs) = 0
                          \/ M = {})
        /\ IF M = {}
           THEN x_ret = 0 /\ x_dstbuf = Unwritten
           ELSE /\ x_ret = 1
                /\ x_dstbuf = FromTx(x_flow, Lowest(M), x_call.header).dstbuf

C3_Witness ==
    LET M == Matching(x_flow, x_call.header) IN
    /\ x_call.fn = "GetXFFIP"
    /\ M = {1, 2}
    /\ FromTx(x_flow, 1, x_call.header).dstbuf # FromTx(x_flow, 2, x_call.header).dstbuf
    /\ x_ret = 1
    /\ x_dstbuf = FromTx(x_flow, 1, x_call.header).dstbuf

(***************************************************************************)
(* Properties of the Config Resolver (SpecCfg)                             *)
(***************************************************************************)
\* The values of `enabled` that read as true, and the spellings of the
\* overwrite mode, among the values the configurations take.
TrueSpellings == {"yes", "TRUE", "On", "1"}

OverwriteSpellings == {"overwrite", "Overwrite", "OVERWRITE"}

LastConf == Deref(c_conf)

LastXff == Deref(LastConf.xff)

EnabledTrue ==
    /\ LastConf.xff # NULL
    /\ LastXff.enabled # NULL
    /\ Deref(LastXff.enabled) \in TrueSpellings

OverwriteAsked == LastXff.mode # NULL /\ Deref(LastXff.mode) \in OverwriteSpellings

\* C4: GetXFFCfg on a zero-initialised result: no xff node or enabled not
\* true gives Disabled whatever else is configured; enabled with mode
\* "overwrite" in any letter case gives Overwrite; enabled with the mode
\* absent or anything else gives ExtraData; when enabled the header is the
\* configured value verbatim, else "X-Forwarded-For".
C4_ResolverMapping ==
    c_calls >= 1 =>
        IF ~EnabledTrue THEN c_result.mode = XFF_DISABLED
        ELSE /\ c_calls = 1 =>
                  c_result.mode = (IF OverwriteAsked THEN XFF_OVERWRITE ELSE XFF_EXTRADATA)
             /\ c_result.header = (IF LastXff.header # NULL THEN LastXff.header
                                   ELSE Ptr("X-Forwarded-For"))

C4_Witness ==
    /\ c_calls = 1
    /\ EnabledTrue
    /\ LastXff.mode = Ptr("OVERWRITE")
    /\ LastXff.header = Ptr("X-Real-IP")
    /\ c_result = [mode |-> XFF_OVERWRITE, header |-> Ptr("X-Real-IP")]

\* C5: after GetXFFCfg returns, the mode is exactly one of Disabled,
\* ExtraData, Overwrite, whatever the result held before the call.
C5_ExactlyOneMode ==
    c_calls >= 1 => c_result.mode \in {XFF_DISABLED, XFF_EXTRADATA, XFF_OVERWRITE}

(***************************************************************************)
(* Properties of the Alert Record Builder (Spec)                           *)
(***************************************************************************)
\* The XFFCfg the builder consults for the packet in hand.
Consulted == Deref(LoadXFFCfg(CurCtx))

\* The alert a record was emitted for: its signature id is its position.
AlertOf(r) == CurPacket.alerts[Deref(r.alert).signature_id]

\* Whether the configuration turns the named enrichment flag on.
Configured(name) ==
    /\ l_conf # NULL
    /\ Deref(l_conf)[name] # NULL
    /\ Deref(Deref(l_conf)[name]) \in TrueSpellings

\* C6: when the extraction succeeds for an alert, Overwrite mode replaces
\* dest_ip for a to-client packet and src_ip otherwise, leaves the other
\* address alone and adds no xff; ExtraData mode sets xff to the IP and
\* alters neither address.
C6_AttachByMode ==
    [][(pc = "xff" /\ pc' = "emit" /\ l_have_xff_ip' # 0) =>
        LET old == Deref(l_js)
            new == Deref(l_js')
            ip == Ptr(l_buffer')
        IN /\ IsIPLiteral(l_buffer')
           /\ Consulted.mode = XFF_OVERWRITE =>
                /\ IF CurPacket.dir = "toclient"
                   THEN new.dest_ip = ip /\ new.src_ip = old.src_ip
                   ELSE new.src_ip = ip /\ new.dest_ip = old.dest_ip
                /\ new.xff = old.xff
           /\ Consulted.mode = XFF_EXTRADATA =>
                /\ new.xff = ip
                /\ new.src_ip = old.src_ip
                /\ new.dest_ip = old.dest_ip
      ]_vars

C6_Witness ==
    /\ pc = "emit"
    /\ l_have_xff_ip # 0
    /\ Consulted.mode = XFF_OVERWRITE
    /\ CurPacket.dir = "toclient"
    /\ Deref(l_js).dest_ip = Ptr(T_203_0_113_5)
    /\ Deref(l_js).src_ip = Ptr(PktSrc)
    /\ Deref(l_js).xff = NULL

\* What the XFF stage yields for the alert of a record, run on its own.
OwnXff(r) == XffExtract(Consulted, CurPacket, AlertOf(r), Unwritten)

\* C7: every record emitted for a packet with several alerts holds only
\* what its own alert's enrichment produced: an xff, or a src_ip/dest_ip
\* other than the packet's, is the IP extracted for that very alert.
C7_OwnEnrichmentOnly ==
    \A k \in 1..Len(emitted) :
        LET r == emitted[k] IN
        CurPacket.is_ip =>
            /\ r.xff # NULL => (OwnXff(r).ret # 0 /\ r.xff = Ptr(OwnXff(r).dstbuf))
            /\ r.src_ip # Ptr(CurPacket.src) =>
                  (OwnXff(r).ret # 0 /\ r.src_ip = Ptr(OwnXff(r).dstbuf))
            /\ r.dest_ip # Ptr(CurPacket.dst) =>
                  (OwnXff(r).ret # 0 /\ r.dest_ip = Ptr(OwnXff(r).dstbuf))

\* C8: each optional section of an emitted record is there only when its
\* own flag is configured: http with http, payload_printable with
\* payload-printable, payload with payload, stream with either payload
\* flag, packet with packet.
C8_SectionOnlyWithItsFlag ==
    \A k \in 1..Len(emitted) :
        LET r == emitted[k] IN
        /\ r.http # NULL => Configured("http")
        /\ r.payload_printable # NULL => Configured("payload_printable")
        /\ r.payload # NULL => Configured("payload")
        /\ r.stream # NULL => (Configured("payload") \/ Configured("payload_printable"))
        /\ r.packet # NULL => Configured("packet")

BaseKeys ==
    {"action", "gid", "signature_id", "rev", "signature", "category", "severity", "tx_id"}

AllFlagsOff ==
    ~(Configured("http") \/ Configured("payload") \/ Configured("payload_printable")
      \/ Configured("packet"))

\* C9: with the four enrichment flags off and the consulted XFF mode
\* Disabled, an emitted record has no http, payload, payload_printable,
\* packet, stream or xff section, and its alert object has the base fields
\* of its alert, with a tx_id only for a transaction-scoped alert.
C9_BaseFieldsOnly ==
    (emitted # <<>> /\ AllFlagsOff /\ LoadXFFCfg(CurCtx) # NULL
        /\ Consulted.mode = XFF_DISABLED) =>
    \A k \in 1..Len(emitted) :
        LET r == emitted[k]
            a == Deref(r.alert)
            pa == AlertOf(r)
        IN /\ r.http = NULL /\ r.payload = NULL /\ r.payload_printable = NULL
           /\ r.packet = NULL /\ r.stream = NULL /\ r.xff = NULL
           /\ r.alert # NULL
           /\ DOMAIN a = BaseKeys
           /\ a.gid = Deref(pa.s).gid /\ a.rev = Deref(pa.s).rev
           /\ a.severity = Deref(pa.s).prio
           /\ a.signature = (IF Deref(pa.s).msg = NULL THEN "" ELSE Deref(Deref(pa.s).msg))
           /\ a.category = (IF Deref(pa.s).class_msg = NULL THEN ""
                            ELSE Deref(Deref(pa.s).class_msg))
           /\ a.action \in {"allowed", "blocked"}
           /\ a.tx_id # NULL => (pa.flags_tx /\ a.tx_id = Ptr(pa.tx_id))
           /\ (CurPacket.is_ip /\ pa.flags_tx) => a.tx_id # NULL
           /\ CurPacket.is_ip => (r.src_ip = Ptr(CurPacket.src) /\ r.dest_ip = Ptr(CurPacket.dst))

C9_Witness ==
    /\ pc = "done"
    /\ AllFlagsOff
    /\ LoadXFFCfg(CurCtx) # NULL
    /\ Consulted.mode = XFF_DISABLED
    /\ CurPacket.flow # NULL
    /\ Deref(CurPacket.flow).alstate # NULL
    /\ Len(emitted) = 2
    /\ Deref(emitted[1].alert).tx_id = NULL
    /\ Deref(emitted[2].alert).tx_id = Ptr(1)

\* The signature ids of the alerts of the packet that have a signature, in
\* array order.
RECURSIVE WithSignature(_, _)
WithSignature(alerts, n) ==
    IF n > Len(alerts) THEN <<>>
    ELSE (IF alerts[n].s # NULL THEN <<Deref(alerts[n].s).id>> ELSE <<>>)
         \o WithSignature(alerts, n + 1)

\* C10: absent allocation failure, the log entry point emits one record per
\* alert with a signature, in array order, nothing for an alert without
\* one, nothing for a packet without alerts, and returns success.
C10_OneRecordPerAlert ==
    (pc \in {"done", "crashed"} /\ ~alloc_failed) =>
        /\ pc = "done"
        /\ ret = TM_ECODE_OK
        /\ Len(emitted) = Len(WithSignature(CurPacket.alerts, 1))
        /\ \A k \in 1..Len(emitted) :
              Deref(emitted[k].alert).signature_id = WithSignature(CurPacket.alerts, 1)[k]

(***************************************************************************)
(* Allocation failure in the Alert Record Builder (Spec)                   *)
(***************************************************************************)
\* C11: an allocation failure at any stage of assembling a record (header,
\* alert object, HTTP summary object) ends the work on the packet at once:
\* the entry point returns a non-fatal code, and from the failure on no
\* record is emitted and the records emitted before are unchanged.
C11_AllocFailureAborts ==
    [][alloc_failed' =>
        /\ emitted' = emitted
        /\ ~alloc_failed => (pc' = "done" /\ ret' = TM_ECODE_OK)
      ]_vars

(***************************************************************************)
(* Properties of worker start and stop (SpecThr)                           *)
(***************************************************************************)
\* C12: over any sequence of start and stop calls, a start that returns
\* success leaves a live thread data that owns two live, distinct buffers
\* and is bound to the output context, and a start that fails leaves no
\* context; a stop releases the thread data and both its buffers, nothing
\* is ever released twice, and released memory is never accessed, also
\* when the stop is given NULL or an already torn-down thread data.
C12_StartStopSafe ==
    /\ ~t_uaf
    /\ \A a \in 1..Len(t_heap) : t_heap[a].frees <= 1
    /\ t_last.fn = "init" =>
          IF t_ret = TM_ECODE_OK
          THEN /\ t_data # NULL
               /\ LET th == t_heap[Deref(t_data)] IN
                  /\ th.state = "live"
                  /\ th.json_buffer # NULL /\ th.payload_buffer # NULL
                  /\ th.json_buffer # th.payload_buffer
                  /\ t_heap[Deref(th.json_buffer)].state = "live"
                  /\ t_heap[Deref(th.payload_buffer)].state = "live"
                  /\ th.json_output_ctx = Deref(t_last.arg).data
          ELSE t_data = NULL
    /\ (t_last.fn = "deinit" /\ t_last.arg # NULL) =>
          /\ t_ret = TM_ECODE_OK
          /\ t_heap[Deref(t_last.arg)].state = "freed"
          /\ \A b \in BuffersOf(t_heap, Deref(t_last.arg)) :
                t_heap[b].state = "freed" /\ t_heap[b].frees = 1

(***************************************************************************)
(* Properties of the flow read lock (SpecLock)                             *)
(***************************************************************************)
HoldsLock(w) == \E f \in LockFlows : w \in k_readers[f]

\* C13: with several workers, possibly on the same flow, a worker holds the
\* read lock of its packet's flow whenever it reads the flow's application
\* state (HTTP summary, XFF extraction), holds no other flow's lock, and
\* holds no lock when the record is written, when the next alert starts,
\* between the stages, or when the entry point has returned or faulted.
C13_LockDiscipline ==
    \A w \in Workers :
        /\ k_pc[w] \in {"http_read", "xff_read"} =>
              (k_pkt[w].flow # NULL /\ w \in k_readers[KFlow(w)])
        /\ k_pc[w] \in {"write", "alert", "idle", "crashed", "payload",
                        "http_lock", "xff_lock"} => ~HoldsLock(w)
        /\ \A f \in LockFlows : w \in k_readers[f] => k_pkt[w].flow = Ptr(f)

C13_Witness ==
    /\ ~k_build.mutex
    /\ k_pc["w1"] = "xff_read"
    /\ k_pc["w2"] = "http_read"
    /\ k_pkt["w1"].flow = Ptr("f1")
    /\ k_readers["f1"] = Workers
    /\ k_i["w1"] = 2

(***************************************************************************)
(* The XFFCfg the Alert Record Builder consults (Spec)                     *)
(***************************************************************************)
\* C14: whenever a worker processes an alert, the xff_cfg of its output
\* context is set and holds what GetXFFCfg resolves from the output's
\* configuration.
C14_ResolvedBeforeFirstAlert ==
    pc \in {"alert", "http", "payload", "packet", "xff", "emit"} =>
        /\ CurCtx.xff_cfg # NULL
        /\ l_conf # NULL =>
              Deref(CurCtx.xff_cfg) = GetXFFCfg(Deref(l_conf), ZeroedXFFCfg)

====
